---- MODULE Spec2Model ----
(***************************************************************************)
(* NotionExporter (exporter.ts): the recursive export of a page tree into  *)
(* a directory tree of markdown files.                                     *)
(*                                                                         *)
(* Spec        one export run: exportAll, exportAllPages, exportPage,      *)
(*             getChildPages, processImages against a remote workspace     *)
(*             and a file system.                                          *)
(* SpecFair    one export run in which every awaited call settles, on      *)
(*             workspaces of FairPages pages and FairBlocks listed items.  *)
(* SpecTwice   the same run followed by a second run of a fresh exporter   *)
(*             against the same workspace and the same output directory.   *)
(* SpecDownload  downloadImage alone against a server of NumUrls URLs.     *)
(* SpecSanitize  sanitizeFileName alone on titles of up to a few more      *)
(*             characters than MAX_FILENAME_LENGTH.                        *)
(* SpecImages  processImages alone, one loop iteration per step, on        *)
(*             documents drawn from a bounded set.                         *)
(* SpecDots    one export run on workspaces of DotBlocks listed items in   *)
(*             which one page is titled "." or "..".                       *)
(*                                                                         *)
(* Text is modelled as sequences: a title is a sequence of one-character   *)
(* strings, a path is a sequence of names, a markdown document is a        *)
(* sequence of tokens (text runs and image references).                    *)
(***************************************************************************)
EXTENDS Integers, Sequences, FiniteSets, TLC

(***************************************************************************)
(* Bounds of the model.                                                    *)
(***************************************************************************)
NumPages == 3        \* page identities of the workspace: 1..NumPages
MaxBlocks == 3       \* listed items of the workspace: child blocks and search results
MaxFailures == 1     \* steps that throw in one run (file system, remote calls)
DotBlocks == 2       \* listed items of the workspaces of SpecDots
MaxMatches == 3      \* image references of a document of SpecImages
FairBlocks == 2      \* listed items of a workspace of SpecFair
FairPages == 2       \* pages of a workspace of SpecFair
NumUrls == 2         \* URLs of the server of SpecDownload
MaxRedirects == 2    \* redirects of one download that are counted
MaxAffix == 2        \* characters before and after the letters of a title of SpecSanitize

MAX_FILENAME_LENGTH == 200

Pages == 1..NumPages
NoItem == 0          \* a listed object that is not a page (a database, a paragraph block)
NoRoot == 0          \* rootPageId undefined

(***************************************************************************)
(* Sequences.                                                              *)
(***************************************************************************)
SeqsUpTo(S, n) == UNION {[1..k -> S] : k \in 0..n}

Last(s) == s[Len(s)]
Front(s) == SubSeq(s, 1, Len(s) - 1)

\* String.prototype.substring(0, n)
Substring0(s, n) == IF Len(s) <= n THEN s ELSE SubSeq(s, 1, n)

(***************************************************************************)
(* sanitizeFileName: the four replace calls, substring and the fallback.   *)
(***************************************************************************)
InvalidChars == {"<", ">", ":", "\"", "/", "\\", "|", "?", "*"}
WhiteSpace == {" ", "\t", "\n"}

\* .replace(/[<>:"/\\|?*]/g, '-')
ReplaceInvalid(s) == [i \in 1..Len(s) |-> IF s[i] \in InvalidChars THEN "-" ELSE s[i]]

\* .replace(/\s+/g, '-'): every maximal run of white space becomes one hyphen
\* (the characters of a run but the last are dropped, the last is replaced)
Kept(mark) == ~mark.drop

ReplaceSpaces(s) ==
  LET marks == [i \in 1..Len(s) |->
                  [ch |-> s[i],
                   drop |-> /\ s[i] \in WhiteSpace
                            /\ i < Len(s) /\ s[i + 1] \in WhiteSpace]]
      kept == SelectSeq(marks, Kept)
  IN [i \in 1..Len(kept) |-> IF kept[i].ch \in WhiteSpace THEN "-" ELSE kept[i].ch]

\* .replace(/-+/g, '-'): every maximal run of hyphens becomes one hyphen
CollapseHyphensNot(s) == s

CollapseHyphens(s) ==
  LET marks == [i \in 1..Len(s) |->
                  [ch |-> s[i],
                   drop |-> s[i] = "-" /\ i < Len(s) /\ s[i + 1] = "-"]]
      kept == SelectSeq(marks, Kept)
  IN [i \in 1..Len(kept) |-> kept[i].ch]

\* .replace(/^-|-$/g, ''): one hyphen at the start and one at the end
TrimHyphens(s) ==
  LET a == IF s # <<>> /\ s[1] = "-" THEN Tail(s) ELSE s
  IN IF a # <<>> /\ Last(a) = "-" THEN Front(a) ELSE a

NoFallback == <<>>

Untitled == <<"u", "n", "t", "i", "t", "l", "e", "d">>

sanitizeFileName(fileName) ==
  LET t == Substring0(
             TrimHyphens(CollapseHyphens(ReplaceSpaces(ReplaceInvalid(fileName)))),
             MAX_FILENAME_LENGTH)
  IN IF t = <<>> THEN Untitled ELSE t

(***************************************************************************)
(* getPageTitle: the plain_text of the runs of the title property joined,  *)
(* 'Untitled' when the property has no run.                                *)
(***************************************************************************)
RECURSIVE Join(_)
Join(runs) == IF runs = <<>> THEN <<>> ELSE Head(runs) \o Join(Tail(runs))

UntitledTitle == <<"U", "n", "t", "i", "t", "l", "e", "d">>

getPageTitle(runs) == IF Len(runs) > 0 THEN Join(runs) ELSE UntitledTitle

(***************************************************************************)
(* path.join of a directory and one name: "." and ".." are resolved.       *)
(***************************************************************************)
MdExt == ".md"

PathJoin(dir, name) ==
  IF name = <<".">> THEN dir
  ELSE IF name = <<".", ".">> /\ dir # <<>> /\ Last(dir) # <<".", ".">>
       THEN Front(dir)
       ELSE Append(dir, name)

\* path.join(parentDir, `${fileName}.md`)
MdPath(dir, fileName) == Append(dir, Append(fileName, MdExt))

(***************************************************************************)
(* Markdown documents.  A token is a run of text or one image reference   *)
(* ![alt](target); a target is a URL or a local path:                      *)
(*   scheme  "https", "http", "ftp" for a URL of another scheme, or "rel"  *)
(*           for a path                                                    *)
(*   host    the labels of the hostname (the directories of a local path); *)
(*           <<>> with an http scheme is a target new URL() rejects        *)
(*   name    the base name of the last path segment                        *)
(*   ext     what follows the last dot of the path, "" when nothing does   *)
(***************************************************************************)
NoUrl == [scheme |-> "none", host |-> <<>>, name |-> <<>>, ext |-> ""]
TextToken(t) == [kind |-> "text", alt |-> t, url |-> NoUrl]
ImageToken(alt, url) == [kind |-> "img", alt |-> alt, url |-> url]

Url(scheme, host, name, ext) ==
  [scheme |-> scheme, host |-> host, name |-> <<name>>, ext |-> ext]

\* [...markdown.matchAll(imageRegex)]: the positions of the image references
RECURSIVE MatchAllFrom(_, _)
MatchAllFrom(markdown, k) ==
  IF k > Len(markdown) THEN <<>>
  ELSE IF markdown[k].kind = "img"
       THEN <<k>> \o MatchAllFrom(markdown, k + 1)
       ELSE MatchAllFrom(markdown, k + 1)

MatchAll(markdown) == MatchAllFrom(markdown, 1)

\* imageUrl.startsWith('http://') || imageUrl.startsWith('https://')
StartsWithHttpAlways(url) == TRUE

StartsWithHttp(url) == url.scheme \in {"http", "https"}

\* new URL(imageUrl) throws
UrlThrows(url) == url.host = <<>>

\* urlObj.hostname.includes('notion.so'): the dot falls between two labels,
\* the first ending in "notion" and the second starting with "so"
EndsWithNotion == {"notion", "mynotion"}
StartsWithSo == {"so", "solutions"}

HostnameIncludesNotionSo(host) ==
  \E k \in 1..(Len(host) - 1) :
    host[k] \in EndsWithNotion /\ host[k + 1] \in StartsWithSo

\* extMatch ? extMatch[1] : 'png'
ExtOf(url) == IF url.ext = "" THEN "png" ELSE url.ext

Digits == <<"1", "2", "3", "4", "5", "6", "7", "8", "9">>

\* `image-${imageCounter}.${ext}`
ImageFileName(imageCounter, ext) == <<"image-", Digits[imageCounter], ".", ext>>

\* `./images/${imageFileName}`
RelativeImagePathFirst(imageCounter, ext) ==
  [scheme |-> "rel", host |-> <<".", "images">>,
   name |-> <<"image-", Digits[1]>>, ext |-> ext]

RelativeImagePath(imageCounter, ext) ==
  [scheme |-> "rel", host |-> <<".", "images">>,
   name |-> <<"image-", Digits[imageCounter]>>, ext |-> ext]

\* A replacement string of String.prototype.replace: "$$" inserts one "$"
Substitution(alt) == IF alt = "$$" THEN "$" ELSE alt

\* processedMarkdown.replace(fullMatch, newImageMarkdown): the first
\* occurrence of the text of fullMatch, wherever it is
ReplaceFirst(markdown, fullMatch, new) ==
  IF \E k \in 1..Len(markdown) : markdown[k] = fullMatch
  THEN LET k == CHOOSE j \in 1..Len(markdown) :
                  /\ markdown[j] = fullMatch
                  /\ \A h \in 1..(j - 1) : markdown[h] # fullMatch
       IN [markdown EXCEPT ![k] = new]
  ELSE markdown

(***************************************************************************)
(* downloadImage as processImages sees it: it resolves with the file       *)
(* written, rejects with nothing written, or rejects after a write-stream  *)
(* error and the unlink of the file.                                       *)
(***************************************************************************)
Outcomes == {"ok", "reject", "streamError"}

DownloadFiles(files, path, url, outcome) ==
  IF outcome = "ok"
  THEN [q \in DOMAIN files \cup {path} |->
          IF q = path THEN [kind |-> "image", url |-> url] ELSE files[q]]
  ELSE IF outcome = "streamError"
       THEN [q \in DOMAIN files \ {path} |-> files[q]]
       ELSE files

(***************************************************************************)
(* processImages.  A call is a record                                      *)
(*   markdown, parentDir   the arguments                                   *)
(*   matches, i            the matches and the index of the next one       *)
(*   processedMarkdown, imageCounter                                       *)
(*   files                 the files of the file system                    *)
(*   plan                  the outcome of the download of each match       *)
(*   downloads             the matches downloadImage was called for        *)
(***************************************************************************)
ImagesDir(parentDir) == PathJoin(parentDir, <<"images">>)

ImagesCall(markdown, parentDir, files, plan) ==
  [markdown |-> markdown, parentDir |-> parentDir, matches |-> MatchAll(markdown),
   i |-> 1, processedMarkdown |-> markdown, imageCounter |-> 1,
   files |-> files, plan |-> plan, downloads |-> <<>>]

\* One iteration of the for loop over matches
ImageStep(c) ==
  LET fullMatch == c.markdown[c.matches[c.i]]
      altText == fullMatch.alt
      imageUrl == fullMatch.url
      next == [c EXCEPT !.i = c.i + 1]
  IN IF ~StartsWithHttp(imageUrl) THEN next
     ELSE IF UrlThrows(imageUrl) THEN next
     ELSE IF ~HostnameIncludesNotionSo(imageUrl.host) THEN next
     ELSE LET ext == ExtOf(imageUrl)
              imageFileName == ImageFileName(c.imageCounter, ext)
              localImagePath == Append(ImagesDir(c.parentDir), imageFileName)
              outcome == c.plan[c.i]
              newImageMarkdown ==
                ImageToken(Substitution(altText),
                           RelativeImagePath(c.imageCounter, ext))
              tried == [next EXCEPT
                          !.downloads = Append(c.downloads, c.i),
                          !.files = DownloadFiles(c.files, localImagePath,
                                                  imageUrl, outcome)]
          IN IF outcome = "ok"
             THEN [tried EXCEPT
                     !.processedMarkdown =
                        ReplaceFirst(c.processedMarkdown, fullMatch, newImageMarkdown),
                     !.imageCounter = c.imageCounter + 1]
             ELSE tried

\* The whole loop
RECURSIVE ImageLoop(_)
ImageLoop(c) == IF c.i > Len(c.matches) THEN c ELSE ImageLoop(ImageStep(c))

(***************************************************************************)
(* The workspace served by the remote API.                                 *)
(***************************************************************************)
\* The runs of the title property of each page, in all specifications but
\* SpecDots
TitleRuns(p) ==
  CASE p = 1 -> << <<"A">>, <<" ", "B">> >>
    [] p = 2 -> << <<"A", ":", "-", "B">> >>
    [] OTHER -> <<>>

NotionPng(name) == Url("https", <<"www", "notion", "so">>, name, "png")

\* What n2m.pageToMarkdown / toMarkdownString give for each page (.parent)
DocOf(p) ==
  CASE p = 1 -> <<TextToken("x"), ImageToken("a", NotionPng("x"))>>
    [] p = 2 -> <<ImageToken("b", Url("https", <<"img", "notion", "so">>, "y", ""))>>
    [] OTHER -> <<TextToken("z"), ImageToken("c", NotionPng("w"))>>

OutputDir == << <<"o", "u", "t">> >>

PAGE_SIZE == 100
ServerBatch == 1     \* items the server puts in one response (at most PAGE_SIZE)

VARIABLES
  rootPageId,       \* config.rootPageId, NoRoot when not set
  searchResults,    \* what notion.search lists, in order
  childBlocks,      \* childBlocks[p]: what blocks.children.list lists for p
  pageKind,         \* pageKind[p]: what pages.retrieve gives: full, partial, throws
  pageTitle,        \* pageTitle[p]: the runs of the title property of p
  processedPages,   \* this.processedPages
  main,             \* exportAll and exportAllPages: pc, hasMore, startCursor, batch, j
  stack,            \* the exportPage calls in progress, innermost last
  fsDirs,           \* the directories of the file system
  fsFiles,          \* the files of the file system: path -> content
  run,              \* 1, or 2 in the second run of SpecTwice
  thrownAt,         \* thrownAt[p]: the step of the visit of p that threw
  mainThrown,       \* the step of exportAll that threw
  dlPlan,           \* dlPlan[p]: the outcome of each download of the document of p
  visits,           \* visits[p]: how often the visit body of p was started
  calls,            \* the remote calls and file system calls of the run, in order
  firstRun,         \* the files and directories the first run left
  img,              \* the processImages call of SpecImages
  dl,               \* the downloadImage call of SpecDownload
  san               \* the sanitizeFileName call of SpecSanitize

world == <<rootPageId, searchResults, childBlocks, pageKind, pageTitle>>

\* this.getPageTitle(page) of the page pages.retrieve gives for p
TitleOf(p) == getPageTitle(pageTitle[p])
prog == <<processedPages, main, stack>>
fs == <<fsDirs, fsFiles>>
hist == <<run, thrownAt, mainThrown, dlPlan, visits, calls, firstRun>>
vars == <<world, prog, fs, hist, img, dl, san>>

(***************************************************************************)
(* The file system.                                                        *)
(***************************************************************************)
\* fs.mkdir(dir, { recursive: true })
Prefixes(dir) == {SubSeq(dir, 1, k) : k \in 1..Len(dir)}
MkdirNothing(dirs, dir) == dirs

Mkdir(dirs, dir) == dirs \cup Prefixes(dir)

\* fs.writeFile(filePath, data, 'utf-8'): the file holds data and nothing else
WriteFileAppend(files, filePath, data) ==
  [q \in DOMAIN files \cup {filePath} |->
     IF q = filePath
     THEN IF filePath \in DOMAIN files
          THEN [data EXCEPT !.md = files[filePath].md \o data.md]
          ELSE data
     ELSE files[q]]

WriteFile(files, filePath, data) ==
  [q \in DOMAIN files \cup {filePath} |-> IF q = filePath THEN data ELSE files[q]]

NoFiles == [q \in {} |-> 0]

(***************************************************************************)
(* The listing protocol: the response to a request with start_cursor c     *)
(* (0: undefined) over the list the server holds.                          *)
(***************************************************************************)
Min(a, b) == IF a <= b THEN a ELSE b
BatchLen == Min(PAGE_SIZE, ServerBatch)

ListResponse(list, c) ==
  LET end == Min(c + BatchLen, Len(list))
  IN [results |-> SubSeq(list, c + 1, end),
      has_more |-> end < Len(list),
      next_cursor |-> IF end < Len(list) THEN end ELSE 0]

\* startCursor = response.next_cursor ?? undefined
NextCursorNone(response) == 0

NextCursor(response) == response.next_cursor

(***************************************************************************)
(* Calls in progress.                                                      *)
(***************************************************************************)
\* caller: the page whose visit made the call, 0 for exportAll
Frame(pageId, parentDir, caller) ==
  [pageId |-> pageId, parentDir |-> parentDir, caller |-> caller, pc |-> "enter",
   title |-> <<>>, children |-> <<>>, hasMore |-> TRUE, startCursor |-> 0,
   listCalls |-> 0, fileName |-> <<>>, processedMarkdown |-> <<>>,
   nav |-> <<>>, k |-> 1]

Top == stack[Len(stack)]
Running == stack # <<>>
SetTop(f) == [stack EXCEPT ![Len(stack)] = f]
Goto(pc) == SetTop([Top EXCEPT !.pc = pc])

\* A call the run makes: the page whose visit makes it, the page or the match
\* it is about or the start_cursor it is made with (0: none), the path it is
\* about (<<>>: none)
Call(op, page, arg, path) == [op |-> op, page |-> page, arg |-> arg, path |-> path]
Log(op, page, path) == calls' = Append(calls, Call(op, page, 0, path))

NumFailures ==
  Cardinality({p \in Pages : pageKind[p] # "full"})
  + Cardinality({p \in Pages : thrownAt[p] # "none" /\ pageKind[p] = "full"})
  + Cardinality(UNION {{<<p, d>> : d \in {e \in DOMAIN dlPlan[p] : dlPlan[p][e] # "ok"}} :
                         p \in Pages})
  + (IF mainThrown = "none" THEN 0 ELSE 1)

\* Whether a step may run to its end, and whether it may throw: any step may
\* throw in the first run (MaxFailures bounds how many do); the second run
\* meets the outcomes of the first.
CanPass(p, step) == run = 1 \/ thrownAt[p] # step
CanThrow(p, step) ==
  IF run = 1 THEN NumFailures < MaxFailures ELSE thrownAt[p] = step

MainCanPass(step) == run = 1 \/ mainThrown # step
MainCanThrow(step) ==
  IF run = 1 THEN NumFailures < MaxFailures ELSE mainThrown = step

\* catch (error) of exportPage: the call returns to its caller
CatchNothing(calling) == <<>>

Catch(calling) == Front(calling)

Throw(step) ==
  /\ CanThrow(Top.pageId, step)
  /\ thrownAt' = [thrownAt EXCEPT ![Top.pageId] = step]
  /\ stack' = Catch(stack)

ListSteps == <<"list1", "list2", "list3", "list4", "list5">>

(***************************************************************************)
(* exportAll and exportAllPages.                                           *)
(***************************************************************************)
MainInit == [pc |-> "start", hasMore |-> TRUE, startCursor |-> 0,
             results |-> <<>>, j |-> 1]

\* await fs.mkdir(this.outputDir, { recursive: true })
MkdirOutput ==
  /\ main.pc = "start"
  /\ MainCanPass("mkdirOutput")
  /\ fsDirs' = Mkdir(fsDirs, OutputDir)
  /\ main' = [main EXCEPT !.pc = "dispatch"]
  /\ Log("mkdir", 0, OutputDir)
  /\ UNCHANGED <<world, processedPages, stack, fsFiles, run, thrownAt,
                 mainThrown, dlPlan, visits, firstRun, img, dl, san>>

\* fs.mkdir rejects: exportAll rejects before anything else is done
MkdirOutputThrows ==
  /\ main.pc = "start"
  /\ MainCanThrow("mkdirOutput")
  /\ mainThrown' = "mkdirOutput"
  /\ main' = [main EXCEPT !.pc = "rejected"]
  /\ UNCHANGED <<world, processedPages, stack, fs, run, thrownAt, dlPlan,
                 visits, calls, firstRun, img, dl, san>>

\* if (this.rootPageId) await this.exportPage(this.rootPageId, this.outputDir)
ExportRoot ==
  /\ main.pc = "dispatch"
  /\ rootPageId # NoRoot
  /\ stack' = <<Frame(rootPageId, OutputDir, 0)>>
  /\ main' = [main EXCEPT !.pc = "rootCall"]
  /\ UNCHANGED <<world, processedPages, fs, hist, img, dl, san>>

\* else await this.exportAllPages()
ExportAllPages ==
  /\ main.pc = "dispatch"
  /\ rootPageId = NoRoot
  /\ main' = [main EXCEPT !.pc = "search", !.hasMore = TRUE, !.startCursor = 0]
  /\ UNCHANGED <<world, processedPages, stack, fs, hist, img, dl, san>>

\* while (hasMore) { response = await this.notion.search(...)
Search ==
  /\ main.pc = "search"
  /\ main.hasMore
  /\ MainCanPass("search")
  /\ main' = [main EXCEPT !.pc = "results",
                          !.results = ListResponse(searchResults, main.startCursor),
                          !.j = 1]
  /\ calls' = Append(calls, Call("search", 0, main.startCursor, <<>>))
  /\ UNCHANGED <<world, processedPages, stack, fs, run, thrownAt, mainThrown,
                 dlPlan, visits, firstRun, img, dl, san>>

\* notion.search rejects: exportAllPages and exportAll reject
SearchThrows ==
  /\ main.pc = "search"
  /\ main.hasMore
  /\ MainCanThrow("search")
  /\ mainThrown' = "search"
  /\ main' = [main EXCEPT !.pc = "rejected"]
  /\ calls' = Append(calls, Call("search", 0, main.startCursor, <<>>))
  /\ UNCHANGED <<world, processedPages, stack, fs, run, thrownAt, dlPlan,
                 visits, firstRun, img, dl, san>>

\* 'properties' in page
HasProperties(page) == page # NoItem

\* for (const page of response.results) if ('properties' in page) await exportPage
SearchResult ==
  /\ main.pc = "results"
  /\ ~Running
  /\ main.j <= Len(main.results.results)
  /\ LET page == main.results.results[main.j]
     IN stack' = IF HasProperties(page) THEN <<Frame(page, OutputDir, 0)>> ELSE stack
  /\ main' = [main EXCEPT !.j = main.j + 1]
  /\ UNCHANGED <<world, processedPages, fs, hist, img, dl, san>>

\* hasMore = response.has_more; startCursor = response.next_cursor ?? undefined
SearchNext ==
  /\ main.pc = "results"
  /\ ~Running
  /\ main.j > Len(main.results.results)
  /\ main' = [main EXCEPT !.pc = "search",
                          !.hasMore = main.results.has_more,
                          !.startCursor = NextCursor(main.results)]
  /\ UNCHANGED <<world, processedPages, stack, fs, hist, img, dl, san>>

\* The export is over: console.log('Export complete! ...')
ExportComplete ==
  /\ ~Running
  /\ \/ main.pc = "rootCall"
     \/ main.pc = "search" /\ ~main.hasMore
  /\ main' = [main EXCEPT !.pc = "done"]
  /\ UNCHANGED <<world, processedPages, stack, fs, hist, img, dl, san>>

Finished == main.pc \in {"done", "rejected"}

(***************************************************************************)
(* exportPage(pageId, parentDir).                                          *)
(***************************************************************************)
\* this.processedPages.has(pageId)
HasNever(set, pageId) == FALSE

Has(set, pageId) == pageId \in set

\* this.processedPages.add(pageId)
AddProcessedNothing(set, pageId) == set

AddProcessed(set, pageId) == set \cup {pageId}

\* isFullPage(page): 'properties' in page
isFullPageAlways(kind) == TRUE

isFullPage(kind) == kind = "full"

\* 'type' in block && block.type === 'child_page'
IsChildPage(block) == block # NoItem

\* if (this.processedPages.has(pageId)) return
SkipProcessed ==
  /\ Running /\ Top.pc = "enter"
  /\ Has(processedPages, Top.pageId)
  /\ stack' = Front(stack)
  /\ calls' = Append(calls, Call("exportPage", Top.pageId, Top.caller, Top.parentDir))
  /\ UNCHANGED <<world, processedPages, main, fs, run, thrownAt, mainThrown,
                 dlPlan, visits, firstRun, img, dl, san>>

\* this.processedPages.add(pageId); try {
Enter ==
  /\ Running /\ Top.pc = "enter"
  /\ ~Has(processedPages, Top.pageId)
  /\ processedPages' = AddProcessed(processedPages, Top.pageId)
  /\ visits' = [visits EXCEPT ![Top.pageId] = @ + 1]
  /\ stack' = Goto("retrieve")
  /\ calls' = Append(calls, Call("exportPage", Top.pageId, Top.caller, Top.parentDir))
  /\ UNCHANGED <<world, main, fs, run, thrownAt, mainThrown, dlPlan, firstRun, img, dl, san>>

\* page = await this.notion.pages.retrieve({ page_id: pageId });
\* if (!this.isFullPage(page)) return; title = this.getPageTitle(page)
Retrieve ==
  /\ Running /\ Top.pc = "retrieve"
  /\ Log("retrieve", Top.pageId, <<>>)
  /\ CASE pageKind[Top.pageId] = "throws" ->
            /\ thrownAt' = [thrownAt EXCEPT ![Top.pageId] = "retrieve"]
            /\ stack' = Catch(stack)
       [] ~isFullPage(pageKind[Top.pageId]) ->
            /\ stack' = Front(stack)
            /\ UNCHANGED thrownAt
       [] OTHER ->
            /\ stack' = SetTop([Top EXCEPT !.pc = "list",
                                           !.title = TitleOf(Top.pageId)])
            /\ UNCHANGED thrownAt
  /\ UNCHANGED <<world, processedPages, main, fs, run, mainThrown, dlPlan,
                 visits, firstRun, img, dl, san>>

\* getChildPages, the for loop over one response: a child_page block whose
\* retrieval gives a full page is pushed; a retrieval that throws is caught
ChildrenOfAll(blocks) ==
  LET pages == SelectSeq(blocks, IsChildPage)
  IN [c \in 1..Len(pages) |-> [id |-> pages[c], title |-> TitleOf(pages[c])]]

RECURSIVE ChildrenOf(_)
ChildrenOf(blocks) ==
  IF blocks = <<>> THEN <<>>
  ELSE LET block == Head(blocks)
       IN (IF IsChildPage(block) /\ pageKind[block] # "throws"
              /\ isFullPage(pageKind[block])
           THEN << [id |-> block, title |-> TitleOf(block)] >>
           ELSE <<>>) \o ChildrenOf(Tail(blocks))

RECURSIVE ChildRetrievals(_, _)
ChildRetrievals(pageId, blocks) ==
  IF blocks = <<>> THEN <<>>
  ELSE (IF IsChildPage(Head(blocks))
        THEN <<Call("retrieveChild", pageId, Head(blocks), <<>>)>>
        ELSE <<>>) \o ChildRetrievals(pageId, Tail(blocks))

\* getChildPages, one turn of the while loop
ListChildren ==
  /\ Running /\ Top.pc = "list" /\ Top.hasMore
  /\ CanPass(Top.pageId, ListSteps[Top.listCalls + 1])
  /\ LET response == ListResponse(childBlocks[Top.pageId], Top.startCursor)
     IN /\ stack' = SetTop([Top EXCEPT
                              !.children = @ \o ChildrenOf(response.results),
                              !.hasMore = response.has_more,
                              !.startCursor = NextCursor(response),
                              !.listCalls = @ + 1])
        /\ calls' = calls \o <<Call("list", Top.pageId, Top.startCursor, <<>>)>>
                          \o ChildRetrievals(Top.pageId, response.results)
  /\ UNCHANGED <<world, processedPages, main, fs, run, thrownAt, mainThrown,
                 dlPlan, visits, firstRun, img, dl, san>>

\* blocks.children.list rejects
ListChildrenThrows ==
  /\ Running /\ Top.pc = "list" /\ Top.hasMore
  /\ Throw(ListSteps[Top.listCalls + 1])
  /\ calls' = Append(calls, Call("list", Top.pageId, Top.startCursor, <<>>))
  /\ UNCHANGED <<world, processedPages, main, fs, run, mainThrown, dlPlan,
                 visits, firstRun, img, dl, san>>

\* mdBlocks = await this.n2m.pageToMarkdown(pageId); mdString = toMarkdownString;
\* fileName = this.sanitizeFileName(title)
Convert ==
  /\ Running /\ Top.pc = "list" /\ ~Top.hasMore
  /\ CanPass(Top.pageId, "convert")
  /\ stack' = SetTop([Top EXCEPT !.pc = "images",
                                 !.processedMarkdown = DocOf(Top.pageId),
                                 !.fileName = sanitizeFileName(Top.title)])
  /\ Log("convert", Top.pageId, <<>>)
  /\ UNCHANGED <<world, processedPages, main, fs, run, thrownAt, mainThrown,
                 dlPlan, visits, firstRun, img, dl, san>>

ConvertThrows ==
  /\ Running /\ Top.pc = "list" /\ ~Top.hasMore
  /\ Throw("convert")
  /\ Log("convert", Top.pageId, <<>>)
  /\ UNCHANGED <<world, processedPages, main, fs, run, mainThrown, dlPlan,
                 visits, firstRun, img, dl, san>>

\* The navigation section: `- [${childTitle}](./${fileName}/${childFileName}.md)`
NavLinkRaw(fileName, child) ==
  [text |-> child.title,
   target |-> <<<<".">>, fileName, Append(child.title, MdExt)>>]

NavLink(fileName, child) ==
  [text |-> child.title,
   target |-> <<<<".">>, fileName, Append(sanitizeFileName(child.title), MdExt)>>]

Nav(fileName, children) ==
  [c \in 1..Len(children) |-> NavLink(fileName, children[c])]

\* The downloads of a document, as calls
DownloadCalls(pageId, c) ==
  [d \in 1..Len(c.downloads) |-> Call("download", pageId, c.downloads[d], <<>>)]

Plans(markdown) == [1..Len(MatchAll(markdown)) -> Outcomes]
NonOk(plan) == Cardinality({d \in DOMAIN plan : plan[d] # "ok"})

\* A plan gives an outcome to the matches of the document that are downloaded
PlanFits(plan, markdown) ==
  \A d \in DOMAIN plan :
    plan[d] # "ok" =>
      /\ LET url == markdown[MatchAll(markdown)[d]].url
         IN StartsWithHttp(url) /\ ~UrlThrows(url) /\ HostnameIncludesNotionSo(url.host)

\* processedMarkdown = await this.processImages(mdString.parent, parentDir),
\* then the navigation section
ProcessImages ==
  /\ Running /\ Top.pc = "images"
  /\ \E plan \in Plans(Top.processedMarkdown) :
       /\ PlanFits(plan, Top.processedMarkdown)
       /\ IF run = 1 THEN NumFailures + NonOk(plan) <= MaxFailures
                     ELSE plan = dlPlan[Top.pageId]
       /\ dlPlan' = [dlPlan EXCEPT ![Top.pageId] = plan]
       /\ LET start == ImagesCall(Top.processedMarkdown, Top.parentDir, fsFiles, plan)
              end == ImageLoop(start)
              matched == start.matches # <<>>
          IN /\ matched => CanPass(Top.pageId, "mkdirImages")
             /\ fsDirs' = IF matched THEN Mkdir(fsDirs, ImagesDir(Top.parentDir))
                          ELSE fsDirs
             /\ fsFiles' = end.files
             /\ stack' = SetTop([Top EXCEPT
                                   !.pc = "write",
                                   !.processedMarkdown = end.processedMarkdown,
                                   !.nav = Nav(Top.fileName, Top.children)])
             /\ calls' = calls
                  \o (IF matched
                      THEN <<Call("mkdir", Top.pageId, 0, ImagesDir(Top.parentDir))>>
                      ELSE <<>>)
                  \o DownloadCalls(Top.pageId, end)
  /\ UNCHANGED <<world, processedPages, main, run, thrownAt, mainThrown,
                 visits, firstRun, img, dl, san>>

\* fs.mkdir(imagesDir) rejects: processImages rejects
ProcessImagesThrows ==
  /\ Running /\ Top.pc = "images"
  /\ MatchAll(Top.processedMarkdown) # <<>>
  /\ Throw("mkdirImages")
  /\ Log("mkdir", Top.pageId, ImagesDir(Top.parentDir))
  /\ UNCHANGED <<world, processedPages, main, fs, run, mainThrown, dlPlan,
                 visits, firstRun, img, dl, san>>

FilePath(f) == MdPath(f.parentDir, f.fileName)
ChildDir(f) == PathJoin(f.parentDir, f.fileName)

\* await fs.writeFile(filePath, processedMarkdown, 'utf-8');
\* the call returns when there are no children
WritePage ==
  /\ Running /\ Top.pc = "write"
  /\ CanPass(Top.pageId, "writeFile")
  /\ fsFiles' = WriteFile(fsFiles, FilePath(Top),
                          [kind |-> "md", page |-> Top.pageId,
                           md |-> Top.processedMarkdown, nav |-> Top.nav])
  /\ stack' = IF Len(Top.children) > 0 THEN Goto("mkdir") ELSE Front(stack)
  /\ Log("writeFile", Top.pageId, FilePath(Top))
  /\ UNCHANGED <<world, processedPages, main, fsDirs, run, thrownAt, mainThrown,
                 dlPlan, visits, firstRun, img, dl, san>>

WritePageThrows ==
  /\ Running /\ Top.pc = "write"
  /\ Throw("writeFile")
  /\ UNCHANGED <<world, processedPages, main, fs, run, mainThrown, dlPlan,
                 visits, calls, firstRun, img, dl, san>>

\* childDir = path.join(parentDir, fileName); await fs.mkdir(childDir, ...)
MkdirChildDir ==
  /\ Running /\ Top.pc = "mkdir"
  /\ CanPass(Top.pageId, "mkdirChildDir")
  /\ fsDirs' = Mkdir(fsDirs, ChildDir(Top))
  /\ stack' = SetTop([Top EXCEPT !.pc = "children", !.k = 1])
  /\ Log("mkdir", Top.pageId, ChildDir(Top))
  /\ UNCHANGED <<world, processedPages, main, fsFiles, run, thrownAt, mainThrown,
                 dlPlan, visits, firstRun, img, dl, san>>

MkdirChildDirThrows ==
  /\ Running /\ Top.pc = "mkdir"
  /\ Throw("mkdirChildDir")
  /\ Log("mkdir", Top.pageId, ChildDir(Top))
  /\ UNCHANGED <<world, processedPages, main, fs, run, mainThrown, dlPlan,
                 visits, firstRun, img, dl, san>>

\* for (const child of children): the child of the k-th turn of the loop
NextChildBackwards(children, k) == children[Len(children) + 1 - k]

NextChild(children, k) == children[k]

\* for (const child of children) await this.exportPage(child.id, childDir)
ExportChild ==
  /\ Running /\ Top.pc = "children"
  /\ Top.k <= Len(Top.children)
  /\ stack' = Append(SetTop([Top EXCEPT !.k = @ + 1]),
                     Frame(NextChild(Top.children, Top.k).id, ChildDir(Top),
                           Top.pageId))
  /\ UNCHANGED <<world, processedPages, main, fs, hist, img, dl, san>>

\* The loop over the children is over: the call returns
ReturnFromPage ==
  /\ Running /\ Top.pc = "children"
  /\ Top.k > Len(Top.children)
  /\ stack' = Front(stack)
  /\ UNCHANGED <<world, processedPages, main, fs, hist, img, dl, san>>

(***************************************************************************)
(* A second run: a new process, a new NotionExporter, the same workspace   *)
(* with the same outcomes, the same output directory.                      *)
(***************************************************************************)
Restart ==
  /\ Finished /\ run = 1
  /\ run' = 2
  /\ firstRun' = [dirs |-> fsDirs, files |-> fsFiles]
  /\ processedPages' = {}
  /\ main' = MainInit
  /\ stack' = <<>>
  /\ visits' = [p \in Pages |-> 0]
  /\ calls' = <<>>
  /\ UNCHANGED <<world, fs, thrownAt, mainThrown, dlPlan, img, dl, san>>

(***************************************************************************)
(* processImages alone (SpecImages).                                       *)
(***************************************************************************)
ImgIdle == [pc |-> "idle"]
DlIdle == [pc |-> "idle"]
SanIdle == [pc |-> "idle"]

ImageTokens ==
  { ImageToken("a", NotionPng("x")),
    ImageToken("b", Url("http", <<"img", "notion", "so">>, "y", "")),
    ImageToken("$$", NotionPng("z")),
    ImageToken("c", Url("https", <<"example", "com">>, "x", "png")),
    ImageToken("g", Url("https", <<"notion", "so", "example", "com">>, "v", "png")),
    ImageToken("d", Url("rel", <<".", "local">>, "image", "png")),
    ImageToken("f", Url("ftp", <<"www", "notion", "so">>, "w", "png")),
    ImageToken("e", Url("https", <<>>, "", "")) }

Tokens == ImageTokens \cup {TextToken("t")}

ImgInit ==
  \E markdown \in SeqsUpTo(Tokens, MaxMatches), plan \in [1..MaxMatches -> Outcomes],
     mkdirThrows \in BOOLEAN :
    /\ \A d \in DOMAIN plan :
         plan[d] # "ok" =>
           /\ d <= Len(MatchAll(markdown))
           /\ LET url == markdown[MatchAll(markdown)[d]].url
              IN StartsWithHttp(url) /\ ~UrlThrows(url)
                 /\ HostnameIncludesNotionSo(url.host)
    /\ mkdirThrows => MatchAll(markdown) # <<>>
    /\ img = [pc |-> "call", c |-> ImagesCall(markdown, OutputDir, NoFiles, plan),
              dirs |-> {OutputDir}, mkdirThrows |-> mkdirThrows]

\* matches = [...markdown.matchAll(imageRegex)];
\* if (matches.length === 0) return markdown; await fs.mkdir(imagesDir, ...)
ImgBegin ==
  /\ img.pc = "call"
  /\ img' = IF img.c.matches = <<>> THEN [img EXCEPT !.pc = "returned"]
            ELSE IF img.mkdirThrows THEN [img EXCEPT !.pc = "rejected"]
            ELSE [img EXCEPT !.pc = "loop",
                             !.dirs = Mkdir(@, ImagesDir(img.c.parentDir))]
  /\ UNCHANGED <<world, prog, fs, hist, dl, san>>

\* for (const match of matches) { ... }
ImgIterate ==
  /\ img.pc = "loop"
  /\ img.c.i <= Len(img.c.matches)
  /\ img' = [img EXCEPT !.c = ImageStep(img.c)]
  /\ UNCHANGED <<world, prog, fs, hist, dl, san>>

\* return processedMarkdown
ImgReturn ==
  /\ img.pc = "loop"
  /\ img.c.i > Len(img.c.matches)
  /\ img' = [img EXCEPT !.pc = "returned"]
  /\ UNCHANGED <<world, prog, fs, hist, dl, san>>

(***************************************************************************)
(* Specifications.                                                         *)
(***************************************************************************)
Items == Pages \cup {NoItem}

\* The items of a listing, each with the listing it belongs to: the child
\* blocks of a page (1..NumPages) or the search results (SearchOwner)
SearchOwner == 0

RECURSIVE ListedBy(_, _)
ListedBy(owner, listed) ==
  IF listed = <<>> THEN <<>>
  ELSE (IF Head(listed)[1] = owner THEN <<Head(listed)[2]>> ELSE <<>>)
       \o ListedBy(owner, Tail(listed))

Kinds ==
  {k \in [Pages -> {"full", "partial", "throws"}] :
     Cardinality({p \in Pages : k[p] # "full"}) <= MaxFailures}

Worlds(maxBlocks) ==
  /\ rootPageId \in {NoRoot, 1}
  /\ \E listed \in SeqsUpTo((Pages \cup {SearchOwner}) \X Items, maxBlocks) :
       /\ searchResults = ListedBy(SearchOwner, listed)
       /\ childBlocks = [p \in Pages |-> ListedBy(p, listed)]
  /\ rootPageId # NoRoot => searchResults = <<>>
  /\ pageKind \in Kinds

PlainTitles == pageTitle = [p \in Pages |-> TitleRuns(p)]

WorldInit == Worlds(MaxBlocks) /\ PlainTitles

ProgInit ==
  /\ processedPages = {}
  /\ main = MainInit
  /\ stack = <<>>
  /\ fsDirs = {}
  /\ fsFiles = NoFiles
  /\ run = 1
  /\ thrownAt = [p \in Pages |-> "none"]
  /\ mainThrown = "none"
  /\ dlPlan = [p \in Pages |-> [d \in 1..Len(MatchAll(DocOf(p))) |-> "ok"]]
  /\ visits = [p \in Pages |-> 0]
  /\ calls = <<>>
  /\ firstRun = [dirs |-> {}, files |-> NoFiles]

Init == WorldInit /\ ProgInit /\ img = ImgIdle /\ dl = DlIdle /\ san = SanIdle

Next ==
  \/ MkdirOutput \/ MkdirOutputThrows \/ ExportRoot \/ ExportAllPages
  \/ Search \/ SearchThrows \/ SearchResult \/ SearchNext \/ ExportComplete
  \/ SkipProcessed \/ Enter \/ Retrieve
  \/ ListChildren \/ ListChildrenThrows \/ Convert \/ ConvertThrows
  \/ ProcessImages \/ ProcessImagesThrows \/ WritePage \/ WritePageThrows
  \/ MkdirChildDir \/ MkdirChildDirThrows \/ ExportChild \/ ReturnFromPage

Spec == Init /\ [][Next]_vars

\* Every await of the program settles: a remote call, a file system call or
\* a download returns or rejects, so the step after it is eventually taken.
\* The workspaces of this specification list FairBlocks items at most, and
\* with that many items a page graph needs no more than FairPages pages.
Unlisted(p) ==
  /\ childBlocks[p] = <<>>
  /\ pageKind[p] = "full"
  /\ \A q \in Pages : \A i \in 1..Len(childBlocks[q]) : childBlocks[q][i] # p
  /\ \A i \in 1..Len(searchResults) : searchResults[i] # p

InitFair ==
  /\ Worlds(FairBlocks) /\ PlainTitles
  /\ \A p \in Pages : p > FairPages => Unlisted(p)
  /\ ProgInit /\ img = ImgIdle /\ dl = DlIdle /\ san = SanIdle

SpecFair == InitFair /\ [][Next]_vars /\ WF_vars(Next)

\* One page of the workspace has a title made of dots alone
Dot == << <<".">> >>
DotDot == << <<".", ".">> >>

InitDots ==
  /\ Worlds(DotBlocks)
  /\ \E p \in Pages, runs \in {Dot, DotDot} :
       pageTitle = [q \in Pages |-> IF q = p THEN runs ELSE TitleRuns(q)]
  /\ ProgInit /\ img = ImgIdle /\ dl = DlIdle /\ san = SanIdle

SpecDots == InitDots /\ [][Next]_vars

NextTwice == Next \/ Restart

SpecTwice == Init /\ [][NextTwice]_vars

InitImages ==
  /\ rootPageId = NoRoot
  /\ searchResults = <<>>
  /\ childBlocks = [p \in Pages |-> <<>>]
  /\ pageKind = [p \in Pages |-> "full"]
  /\ PlainTitles
  /\ ProgInit
  /\ ImgInit
  /\ dl = DlIdle /\ san = SanIdle

NextImages == ImgBegin \/ ImgIterate \/ ImgReturn

SpecImages == InitImages /\ [][NextImages]_vars

(***************************************************************************)
(* downloadImage alone (SpecDownload).  The server answers a GET of each   *)
(* URL in one way: with a status and, for a redirect, with or without a    *)
(* Location header; or the request fails; a 200 body is piped into the     *)
(* file, and the write stream finishes or fails.                           *)
(*   dl.url        the URL of the innermost downloadImage call             *)
(*   dl.redirects  the redirects followed, counted up to MaxRedirects + 1  *)
(*   dl.file       the file at filePath: absent, open or complete          *)
(***************************************************************************)
Urls == 1..NumUrls
NoLocation == 0

Redirects == {301, 302}

Responses ==
  [kind : {"response"}, status : {200}, location : {NoLocation},
   stream : {"finish", "error"}]
  \cup [kind : {"response"}, status : {404}, location : {NoLocation},
        stream : {"none"}]
  \cup [kind : {"response"}, status : Redirects, location : Urls \cup {NoLocation},
        stream : {"none"}]
  \cup [kind : {"error"}, status : {0}, location : {NoLocation}, stream : {"none"}]

DlInit ==
  \E server \in [Urls -> Responses], url \in Urls :
    dl = [pc |-> "get", server |-> server, url |-> url, redirects |-> 0,
          file |-> "absent"]

Response == dl.server[dl.url]

\* protocol.get(url, (response) => { ... }): the response arrives
DlGet ==
  /\ dl.pc = "get"
  /\ Response.kind = "response"
  /\ dl' = [dl EXCEPT !.pc = "response"]
  /\ UNCHANGED <<world, prog, fs, hist, img, san>>

\* .on('error', (err) => reject(err))
DlRequestError ==
  /\ dl.pc = "get"
  /\ Response.kind = "error"
  /\ dl' = [dl EXCEPT !.pc = "rejected"]
  /\ UNCHANGED <<world, prog, fs, hist, img, san>>

\* statusCode 301 or 302 with a Location header
IsRedirect(response) ==
  response.status \in Redirects /\ response.location # NoLocation

\* this.downloadImage(redirectUrl, filePath).then(resolve).catch(reject)
DlRedirect ==
  /\ dl.pc = "response"
  /\ IsRedirect(Response)
  /\ dl' = [dl EXCEPT !.pc = "get",
                      !.url = Response.location,
                      !.redirects = Min(@ + 1, MaxRedirects + 1)]
  /\ UNCHANGED <<world, prog, fs, hist, img, san>>

\* if (response.statusCode !== 200) reject(...)
DlBadStatus ==
  /\ dl.pc = "response"
  /\ ~IsRedirect(Response)
  /\ Response.status # 200
  /\ dl' = [dl EXCEPT !.pc = "rejected"]
  /\ UNCHANGED <<world, prog, fs, hist, img, san>>

\* fileStream = fsSync.createWriteStream(filePath); response.pipe(fileStream)
DlPipe ==
  /\ dl.pc = "response"
  /\ ~IsRedirect(Response)
  /\ Response.status = 200
  /\ dl' = [dl EXCEPT !.pc = "stream", !.file = "open"]
  /\ UNCHANGED <<world, prog, fs, hist, img, san>>

\* fileStream.on('finish', ...): close and resolve
DlFinish ==
  /\ dl.pc = "stream"
  /\ Response.stream = "finish"
  /\ dl' = [dl EXCEPT !.pc = "resolved", !.file = "complete"]
  /\ UNCHANGED <<world, prog, fs, hist, img, san>>

\* fileStream.on('error', ...): unlink and reject
DlStreamError ==
  /\ dl.pc = "stream"
  /\ Response.stream = "error"
  /\ dl' = [dl EXCEPT !.pc = "rejected", !.file = "absent"]
  /\ UNCHANGED <<world, prog, fs, hist, img, san>>

Settled == dl.pc \in {"resolved", "rejected"}

InitDownload ==
  /\ rootPageId = NoRoot
  /\ searchResults = <<>>
  /\ childBlocks = [p \in Pages |-> <<>>]
  /\ pageKind = [p \in Pages |-> "full"]
  /\ PlainTitles
  /\ ProgInit
  /\ img = ImgIdle
  /\ DlInit
  /\ san = SanIdle

NextDownload ==
  \/ DlGet \/ DlRequestError \/ DlRedirect \/ DlBadStatus
  \/ DlPipe \/ DlFinish \/ DlStreamError

\* Every request is answered or fails, and every write stream finishes or
\* fails: the callback after it is eventually run.
SpecDownload == InitDownload /\ [][NextDownload]_vars /\ WF_vars(NextDownload)

(***************************************************************************)
(* sanitizeFileName alone (SpecSanitize).  A title is a few characters, a  *)
(* run of letters whose length is 0 or about MAX_FILENAME_LENGTH, and a    *)
(* few characters again.                                                   *)
(***************************************************************************)
TitleChars == {"a", "-", " ", "?"}

FillLengths == {0} \cup ((MAX_FILENAME_LENGTH - 3)..(MAX_FILENAME_LENGTH + 1))

Fill(n) == [i \in 1..n |-> "a"]

Titles ==
  {pre \o Fill(n) \o post :
     pre \in SeqsUpTo(TitleChars, MaxAffix), n \in FillLengths,
     post \in SeqsUpTo(TitleChars, MaxAffix)}

SanInit == \E title \in Titles : san = [pc |-> "call", fileName |-> title]

\* const fileName = this.sanitizeFileName(title)
Sanitize ==
  /\ san.pc = "call"
  /\ san' = [pc |-> "returned", fileName |-> san.fileName,
             result |-> sanitizeFileName(san.fileName)]
  /\ UNCHANGED <<world, prog, fs, hist, img, dl>>

InitSanitize ==
  /\ rootPageId = NoRoot
  /\ searchResults = <<>>
  /\ childBlocks = [p \in Pages |-> <<>>]
  /\ pageKind = [p \in Pages |-> "full"]
  /\ PlainTitles
  /\ ProgInit
  /\ img = ImgIdle /\ dl = DlIdle
  /\ SanInit

NextSanitize == Sanitize

SpecSanitize == InitSanitize /\ [][NextSanitize]_vars

(***************************************************************************)
(* Properties of the export.                                               *)
(***************************************************************************)
\* The places of the calls of one kind that the visit of p made
CallsOf(op, p) == {i \in 1..Len(calls) : calls[i].op = op /\ calls[i].page = p}

\* The calls of the visit body: everything but the call of exportPage itself
BodyCalls(p) == {i \in 1..Len(calls) : calls[i].page = p /\ calls[i].op # "exportPage"}

\* The children getChildPages returns for p
ChildPages(p) == ChildrenOf(childBlocks[p])

(***************************************************************************)
(* C1. Within one run the visit body of a page identity is executed at     *)
(* most once: it is started at most once, the page is retrieved, converted *)
(* and written at most once, and once exportPage has been called a second  *)
(* time for an identity no remote call and no write of its visit follows.  *)
(***************************************************************************)
C1_VisitAtMostOnce ==
  \A p \in Pages :
    /\ visits[p] <= 1
    /\ Cardinality(CallsOf("retrieve", p)) <= 1
    /\ Cardinality(CallsOf("convert", p)) <= 1
    /\ Cardinality(CallsOf("writeFile", p)) <= 1
    /\ \A i, j \in CallsOf("exportPage", p) :
         i < j => \A k \in BodyCalls(p) : k < j

\* A run that is over, in which exportPage was called three times for a page
\* that was visited and written once
C1_Witness ==
  /\ main.pc = "done"
  /\ \E p \in Pages :
       /\ Cardinality(CallsOf("exportPage", p)) >= 3
       /\ visits[p] = 1
       /\ Cardinality(CallsOf("writeFile", p)) = 1

(***************************************************************************)
(* C3. A step of the visit of a page that throws does not leave            *)
(* exportPage: exportAll rejects only when a step of its own threw; the    *)
(* page that failed stays in processedPages and its visit is not started   *)
(* again; and when the run is over every page the run had to visit was     *)
(* visited all the same: the root or every page of the search results, and *)
(* of every page whose own visit did not fail, its file was written and    *)
(* each of its children was visited.                                       *)
(***************************************************************************)
TopLevelVisited ==
  IF rootPageId # NoRoot THEN rootPageId \in processedPages
  ELSE \A r \in 1..Len(searchResults) :
         HasProperties(searchResults[r]) => searchResults[r] \in processedPages

C3_FailureIsolated ==
  /\ main.pc = "rejected" => mainThrown # "none"
  /\ \A p \in Pages :
       thrownAt[p] # "none" => p \in processedPages /\ visits[p] = 1
  /\ main.pc = "done" =>
       /\ TopLevelVisited
       /\ \A q \in processedPages :
            pageKind[q] = "full" /\ thrownAt[q] = "none" =>
              /\ CallsOf("writeFile", q) # {}
              /\ \A c \in 1..Len(ChildPages(q)) :
                   ChildPages(q)[c].id \in processedPages

\* A run that is over in which the visit of a page threw, and a sibling listed
\* after it (same caller, same directory) was then visited and written
C3_Witness ==
  /\ main.pc = "done"
  /\ \E p, q \in Pages :
       /\ p # q
       /\ thrownAt[p] \in {"list1", "convert", "mkdirImages", "writeFile"}
       /\ thrownAt[q] = "none"
       /\ \E i \in CallsOf("exportPage", p), j \in CallsOf("exportPage", q) :
            /\ i < j
            /\ calls[i].arg = calls[j].arg /\ calls[i].arg # 0
            /\ calls[i].path = calls[j].path
       /\ CallsOf("writeFile", q) # {}

(***************************************************************************)
(* C4. A page whose retrieval gives a partial record is marked processed   *)
(* and nothing else: its visit makes no call but the retrieval (no         *)
(* listing, no conversion, no directory, no download, no write), starts no *)
(* child visit, leaves no file, and is not started a second time.          *)
(***************************************************************************)
C4_PartialSkipped ==
  \A p \in Pages :
    pageKind[p] = "partial" =>
      /\ \A i \in BodyCalls(p) : calls[i].op = "retrieve"
      /\ \A i \in 1..Len(calls) : calls[i].op = "exportPage" => calls[i].arg # p
      /\ \A path \in DOMAIN fsFiles :
           fsFiles[path].kind = "md" => fsFiles[path].page # p
      /\ CallsOf("retrieve", p) # {} => p \in processedPages
      /\ visits[p] <= 1

\* A run that is over in which exportPage was called twice for a page whose
\* retrieval gave a partial record
C4_Witness ==
  /\ main.pc = "done"
  /\ \E p \in Pages :
       /\ pageKind[p] = "partial"
       /\ CallsOf("retrieve", p) # {}
       /\ Cardinality(CallsOf("exportPage", p)) >= 2

(***************************************************************************)
(* C5. The navigation section of every written document has one link per   *)
(* child that getChildPages returned for the page, in listing order, and   *)
(* the target of the link of child c is                                    *)
(* ./<sanitized title of the page>/<sanitized title of c>.md               *)
(***************************************************************************)
C5_NavLinks ==
  \A path \in DOMAIN fsFiles :
    fsFiles[path].kind = "md" =>
      LET p == fsFiles[path].page
          nav == fsFiles[path].nav
      IN /\ Len(nav) = Len(ChildPages(p))
         /\ \A c \in 1..Len(nav) :
              nav[c].target =
                << <<".">>, sanitizeFileName(TitleOf(p)),
                   Append(sanitizeFileName(TitleOf(ChildPages(p)[c].id)), MdExt) >>

\* A written document with links to three children, listed in three responses,
\* the first a page whose title is not its file name
C5_Witness ==
  \E path \in DOMAIN fsFiles :
    /\ fsFiles[path].kind = "md"
    /\ Len(fsFiles[path].nav) = 3
    /\ fsFiles[path].nav[1].text # sanitizeFileName(fsFiles[path].nav[1].text)
    /\ fsFiles[path].nav[1] # fsFiles[path].nav[2]


(***************************************************************************)
(* C2. On every finite page graph, cyclic ones included, exportAll         *)
(* eventually completes (resolves or rejects); no identity is visited      *)
(* twice, no identity has two visits in progress at once, and the number   *)
(* of visits never exceeds the number of distinct identities.              *)
(***************************************************************************)
RECURSIVE SumVisits(_)
SumVisits(S) ==
  IF S = {} THEN 0
  ELSE LET p == CHOOSE q \in S : TRUE IN visits[p] + SumVisits(S \ {p})

InProgress(p) == {i \in 1..Len(stack) : stack[i].pageId = p /\ stack[i].pc # "enter"}

VisitsBounded ==
  /\ \A p \in Pages : visits[p] <= 1 /\ Cardinality(InProgress(p)) <= 1
  /\ SumVisits(Pages) <= Cardinality(Pages)
  /\ Len(stack) <= Cardinality(Pages) + 1

C2_Completes == []VisitsBounded /\ <>Finished

\* pages that list p among their child blocks
Listers(p) == {q \in Pages : \E i \in 1..Len(childBlocks[q]) : childBlocks[q][i] = p}

RECURSIVE Descendants(_, _)
Descendants(S, n) ==
  IF n = 0 THEN S
  ELSE Descendants(S \cup {c \in Pages : Listers(c) \cap S # {}}, n - 1)

OnCycle(p) == \E c \in Pages : p \in Listers(c) /\ p \in Descendants({c}, NumPages)

\* a run completed in which a page was visited, reached again from its own
\* child and skipped
C2_Witness ==
  /\ main.pc = "done"
  /\ \E p, q \in Pages :
       /\ p # q /\ p \in Listers(q) /\ q \in Listers(p)
       /\ visits[p] = 1 /\ visits[q] = 1
       /\ \E i \in CallsOf("exportPage", p) : calls[i].arg = q

(***************************************************************************)
(* C6. When a run over a forest of pages completes without a failed call,   *)
(* every link of the navigation section of a written document leads to     *)
(* the file that the visit of the linked child wrote: the link for child   *)
(* c, resolved against the directory of the document, is a path of a       *)
(* writeFile call of c.                                                    *)
(***************************************************************************)
Resolve(dir, target) ==
  PathJoin(PathJoin(PathJoin(dir, target[1]), target[2]), target[3])

WrittenBy(p) == {calls[i].path : i \in CallsOf("writeFile", p)}

\* the child listings form a forest: a page is listed once at most, and no
\* page is below itself
Listings(p) ==
  {<<q, i>> \in Pages \X (1..MaxBlocks) :
     i <= Len(childBlocks[q]) /\ childBlocks[q][i] = p}

IsForest ==
  \A p \in Pages : Cardinality(Listings(p)) <= 1 /\ ~OnCycle(p)

C6_LinkedFileWritten ==
  (main.pc = "done" /\ NumFailures = 0 /\ IsForest) =>
    \A path \in DOMAIN fsFiles :
      fsFiles[path].kind = "md" =>
        LET p == fsFiles[path].page
            nav == fsFiles[path].nav
        IN \A c \in 1..Len(nav) :
             Resolve(Front(path), nav[c].target) \in WrittenBy(ChildPages(p)[c].id)

(***************************************************************************)
(* C7. The first call of exportAll creates the output root, and the output *)
(* root exists whenever a visit is in progress.  With a root identity      *)
(* there is no workspace search, the only top-level visit is the one of    *)
(* the root with the output root as parent directory, and every page that  *)
(* is written is reachable from the root through child listings.  Without  *)
(* a root identity the top-level visits are, in order, the page-type       *)
(* results of the workspace search, each with the output root as parent    *)
(* directory; all of them when exportAll resolves.                         *)
(***************************************************************************)
IsTopLevel(call) == call.op = "exportPage" /\ call.arg = 0
TopLevelCalls == SelectSeq(calls, IsTopLevel)

IsPageResult(item) == item \in Pages
PageResults == SelectSeq(searchResults, IsPageResult)

IsPrefix(s, t) == Len(s) <= Len(t) /\ \A i \in 1..Len(s) : s[i] = t[i]

C7_Entry ==
  /\ calls # <<>> => calls[1] = Call("mkdir", 0, 0, OutputDir)
  /\ Running => OutputDir \in fsDirs
  /\ \A i \in 1..Len(TopLevelCalls) : TopLevelCalls[i].path = OutputDir
  /\ rootPageId # NoRoot =>
       /\ \A i \in 1..Len(calls) : calls[i].op # "search"
       /\ IsPrefix([i \in 1..Len(TopLevelCalls) |-> TopLevelCalls[i].page],
                   <<rootPageId>>)
       /\ main.pc = "done" => Len(TopLevelCalls) = 1
       /\ \A i \in 1..Len(calls) :
            calls[i].op = "writeFile" =>
              calls[i].page \in Descendants({rootPageId}, NumPages)
  /\ rootPageId = NoRoot =>
       /\ IsPrefix([i \in 1..Len(TopLevelCalls) |-> TopLevelCalls[i].page],
                   PageResults)
       /\ main.pc = "done" => Len(TopLevelCalls) = Len(PageResults)

\* exportAll resolved without a root identity: the search gave a result that
\* is no page between two pages, in more than one response
C7_Witness ==
  /\ rootPageId = NoRoot
  /\ main.pc = "done"
  /\ Len(searchResults) = 3
  /\ searchResults[2] = NoItem
  /\ Len(TopLevelCalls) = 2
  /\ Cardinality({i \in 1..Len(calls) : calls[i].op = "search"}) >= 3

(***************************************************************************)
(* C8. When a run over a forest of pages completes without a failed call,  *)
(* no two distinct pages have written to the same file path, so the file   *)
(* tree holds the document of every page that reached the write step.      *)
(***************************************************************************)
Writers == {calls[i].page : i \in {k \in 1..Len(calls) : calls[k].op = "writeFile"}}

C8_OneFilePerPage ==
  (main.pc = "done" /\ NumFailures = 0 /\ IsForest) =>
    /\ \A p, q \in Writers : p # q => WrittenBy(p) \cap WrittenBy(q) = {}
    /\ \A p \in Writers :
         \E path \in DOMAIN fsFiles :
           fsFiles[path].kind = "md" /\ fsFiles[path].page = p

(***************************************************************************)
(* C9. A second run against the same workspace with the same outcomes,     *)
(* into the same output directory, ends with the directories, the files    *)
(* and the file contents that the first run ended with.                    *)
(***************************************************************************)
C9_SecondRunSameTree ==
  (run = 2 /\ Finished) =>
    /\ DOMAIN fsFiles = DOMAIN firstRun.files
    /\ \A path \in DOMAIN fsFiles : fsFiles[path] = firstRun.files[path]
    /\ fsDirs = firstRun.dirs

\* the second run resolved after it wrote two documents and a downloaded image
\* again, one of the documents with a rewritten image reference
C9_Witness ==
  /\ run = 2 /\ main.pc = "done"
  /\ Cardinality(Writers) >= 2
  /\ \E path \in DOMAIN fsFiles : fsFiles[path].kind = "image"
  /\ \E i \in 1..Len(calls) : calls[i].op = "download"
  /\ \E path \in DOMAIN fsFiles :
       /\ fsFiles[path].kind = "md"
       /\ fsFiles[path].md # DocOf(fsFiles[path].page)

(***************************************************************************)
(* C10. When processImages returns, the k-th image reference of the        *)
(* document, if it qualifies (http or https target on the media host) and  *)
(* its download succeeded, stands rewritten at its own place as            *)
(* ![alt](./images/image-n.ext) with its original alt text, n being its    *)
(* 1-based rank among the qualifying references of the document.           *)
(***************************************************************************)
Qualifies(token) ==
  /\ StartsWithHttp(token.url)
  /\ ~UrlThrows(token.url)
  /\ HostnameIncludesNotionSo(token.url.host)

\* the reference at the k-th match of the call
MatchAt(c, k) == c.markdown[c.matches[k]]

SequenceNumber(c, k) == Cardinality({j \in 1..k : Qualifies(MatchAt(c, j))})

C10_Rewritten ==
  img.pc = "returned" =>
    \A k \in 1..Len(img.c.matches) :
      (Qualifies(MatchAt(img.c, k)) /\ img.c.plan[k] = "ok") =>
        img.c.processedMarkdown[img.c.matches[k]] =
          ImageToken(MatchAt(img.c, k).alt,
                     RelativeImagePath(SequenceNumber(img.c, k),
                                       ExtOf(MatchAt(img.c, k).url)))

(***************************************************************************)
(* C11. When processImages returns and every download succeeded, each      *)
(* reference with an http or https target on a notion.so host stands with  *)
(* the target ./images/image-n.ext, n its rank among those references      *)
(* (1 for the first, 2 for the second), the URL of none of them is left    *)
(* in the text, and downloadImage was called once for each of them, in     *)
(* order, and for no other reference.                                      *)
(* C11_AnyHostRewritten states the same of every reference with an http or *)
(* https target that parses as a URL, whatever its host.                   *)
(***************************************************************************)
LocalTarget(n, ext) ==
  [scheme |-> "rel", host |-> <<".", "images">>,
   name |-> <<"image-", Digits[n]>>, ext |-> ext]

AllDownloadsOk(c) == \A k \in 1..Len(c.matches) : c.plan[k] = "ok"

Remote(token) == StartsWithHttp(token.url) /\ ~UrlThrows(token.url)

RemoteNumber(c, k) == Cardinality({j \in 1..k : Remote(MatchAt(c, j))})

Increasing(s) == \A i, j \in 1..Len(s) : i < j => s[i] < s[j]

HasHttpPrefix(token) == token.url.scheme \in {"http", "https"}

Succeeded(c) == {d \in 1..Len(c.downloads) : c.plan[c.downloads[d]] = "ok"}

BelongsToMediaDomain(host) ==
  /\ Len(host) >= 2
  /\ host[Len(host) - 1] = "notion"
  /\ host[Len(host)] = "so"

C13_OtherHostsUntouched ==
  img.pc # "idle" =>
    LET c == img.c
    IN \A k \in 1..Len(c.matches) :
         (/\ HasHttpPrefix(MatchAt(c, k))
          /\ MatchAt(c, k).url.host # <<>>
          /\ ~BelongsToMediaDomain(MatchAt(c, k).url.host)) =>
           /\ c.processedMarkdown[c.matches[k]] = MatchAt(c, k)
           /\ \A d \in 1..Len(c.downloads) : c.downloads[d] # k

(***************************************************************************)
(* C14. processImages does not reject because of a download, and when it   *)
(* returns, every reference whose download failed or whose target did not  *)
(* parse as a URL stands unchanged at its place, and downloadImage was     *)
(* called for every qualifying reference, those after a failed one         *)
(* included.                                                               *)
(***************************************************************************)
C14_FailureKeepsUrl ==
  /\ img.pc = "rejected" => img.mkdirThrows
  /\ img.pc = "returned" =>
       LET c == img.c
       IN /\ \A k \in 1..Len(c.matches) :
               \/ Qualifies(MatchAt(c, k)) /\ c.plan[k] # "ok"
               \/ HasHttpPrefix(MatchAt(c, k)) /\ MatchAt(c, k).url.host = <<>>
               => c.processedMarkdown[c.matches[k]] = MatchAt(c, k)
          /\ {c.downloads[d] : d \in 1..Len(c.downloads)} =
               {k \in 1..Len(c.matches) : Qualifies(MatchAt(c, k))}

(***************************************************************************)
(* C15. Whatever the server answers, a call of downloadImage eventually    *)
(* settles: it resolves or it rejects.                                     *)
(***************************************************************************)
C15_DownloadSettles == <>Settled

(***************************************************************************)
(* C16. In every state of processImages the images subdirectory of the     *)
(* parent directory exists only if the document holds a reference that     *)
(* qualifies for download.                                                 *)
(***************************************************************************)
C16_ImagesDirLazy ==
  img.pc # "idle" =>
    (ImagesDir(img.c.parentDir) \in img.dirs =>
       \E k \in 1..Len(img.c.matches) : Qualifies(MatchAt(img.c, k)))

(***************************************************************************)
(* C17. The name sanitizeFileName returns holds none of the characters     *)
(* < > : " / \ | ? * and no white space, has no two hyphens in a row and   *)
(* is at most 200 characters long.                                         *)
(***************************************************************************)
ReservedChars == {"<", ">", ":", "\"", "/", "\\", "|", "?", "*"}
Blank == {" ", "\t", "\n"}

C17_SanitizedClean ==
  san.pc = "returned" =>
    LET r == san.result
    IN /\ \A i \in 1..Len(r) : r[i] \notin ReservedChars \cup Blank
       /\ \A i \in 1..(Len(r) - 1) : ~(r[i] = "-" /\ r[i + 1] = "-")
       /\ Len(r) <= 200

\* the name of a title of more than 200 characters with a reserved character,
\* a blank and two hyphens in a row, cut to 200 characters
C17_Witness ==
  /\ san.pc = "returned"
  /\ Len(san.fileName) > 200
  /\ \E i \in 1..Len(san.fileName) : san.fileName[i] \in ReservedChars
  /\ \E i \in 1..Len(san.fileName) : san.fileName[i] \in Blank
  /\ \E i \in 1..(Len(san.fileName) - 1) :
       san.fileName[i] = "-" /\ san.fileName[i + 1] = "-"
  /\ Len(san.result) = 200

(***************************************************************************)
(* C18. The name sanitizeFileName returns neither begins nor ends with a   *)
(* hyphen, for titles of more than 200 characters too.                     *)
(***************************************************************************)
C18_NoOuterHyphen ==
  san.pc = "returned" =>
    /\ san.result # <<>>
    /\ san.result[1] # "-"
    /\ san.result[Len(san.result)] # "-"

(***************************************************************************)
(* C19. sanitizeFileName never returns the empty name, and for a title     *)
(* that holds nothing but reserved characters, white space and hyphens,    *)
(* the empty title included, it returns "untitled".                        *)
(***************************************************************************)
OnlySeparators(title) ==
  \A i \in 1..Len(title) : title[i] \in ReservedChars \cup Blank \cup {"-"}

C19_NeverEmpty ==
  san.pc = "returned" =>
    /\ san.result # <<>>
    /\ OnlySeparators(san.fileName) =>
         san.result = <<"u", "n", "t", "i", "t", "l", "e", "d">>

\* the name of a title of a reserved character, a blank and hyphens
C19_Witness ==
  /\ san.pc = "returned"
  /\ Len(san.fileName) >= 3
  /\ OnlySeparators(san.fileName)
  /\ \E i \in 1..Len(san.fileName) : san.fileName[i] \in ReservedChars
  /\ \E i \in 1..Len(san.fileName) : san.fileName[i] \in Blank
  /\ \E i \in 1..Len(san.fileName) : san.fileName[i] = "-"

(***************************************************************************)
(* C20. Of the requests of one listing loop (notion.search, or             *)
(* blocks.children.list of one page) the first is made without a cursor,   *)
(* and every later one follows a response that said has_more and is made   *)
(* with the next_cursor of that response.  Once the child listing of a     *)
(* page is over, its child_page blocks have been handled once each, in the *)
(* order listed; once the search is over, so have the pages it listed.     *)
(* Every listing loop ends: eventually none is in progress any more.       *)
(***************************************************************************)
Requests(op, p) == {i \in 1..Len(calls) : calls[i].op = op /\ calls[i].page = p}

Chained(list, requests) ==
  \A i \in requests :
    LET before == {j \in requests : j < i}
    IN IF before = {}
       THEN calls[i].arg = 0
       ELSE LET j == CHOOSE h \in before : \A g \in before : g <= h
                response == ListResponse(list, calls[j].arg)
            IN response.has_more /\ calls[i].arg = response.next_cursor

RECURSIVE Handled(_, _, _)
Handled(op, p, i) ==
  IF i > Len(calls) THEN <<>>
  ELSE (IF calls[i].op = op /\ calls[i].page = p THEN <<calls[i].arg>> ELSE <<>>)
       \o Handled(op, p, i + 1)

ListingOver(p) ==
  \/ \E i \in 1..Len(calls) : calls[i].op = "convert" /\ calls[i].page = p
  \/ \E i \in 1..Len(stack) :
       stack[i].pageId = p /\ stack[i].pc = "list" /\ ~stack[i].hasMore

ListingProtocol ==
  /\ Chained(searchResults, Requests("search", 0))
  /\ \A p \in Pages :
       /\ Chained(childBlocks[p], Requests("list", p))
       /\ ListingOver(p) =>
            Handled("retrieveChild", p, 1) = SelectSeq(childBlocks[p], IsPageResult)
  /\ (rootPageId = NoRoot /\ main.pc = "done") =>
       [i \in 1..Len(TopLevelCalls) |-> TopLevelCalls[i].page] = PageResults

NoListing ==
  /\ main.pc \notin {"search", "results"}
  /\ \A i \in 1..Len(stack) : stack[i].pc # "list"

C20_Listing == []ListingProtocol /\ <>[]NoListing

\* a run resolved in which the child blocks of a page came in two responses,
\* the second requested with the cursor of the first
C20_Witness ==
  /\ main.pc = "done"
  /\ \E p \in Pages :
       /\ Len(childBlocks[p]) = 2
       /\ Cardinality(Requests("list", p)) = 2
       /\ \E i \in Requests("list", p) : calls[i].arg # 0
       /\ ListingOver(p)

(***************************************************************************)
(* C21. Once the child listing of a visit is over, the children it holds   *)
(* are the child_page blocks of the page whose retrieval gave a full       *)
(* record, each as often as it is listed, in the order listed; a block     *)
(* whose retrieval threw or gave a partial record is left out and the      *)
(* blocks after it, those of later responses too, are still there.         *)
(***************************************************************************)
RetrievedFull(block) == block \in Pages /\ pageKind[block] = "full"

ListingDone(f) ==
  \/ f.pc \in {"images", "write", "mkdir", "children"}
  \/ f.pc = "list" /\ ~f.hasMore

C21_ChildrenListed ==
  \A i \in 1..Len(stack) :
    ListingDone(stack[i]) =>
      [c \in 1..Len(stack[i].children) |-> stack[i].children[c].id] =
        SelectSeq(childBlocks[stack[i].pageId], RetrievedFull)

\* the listing of a page is over whose three blocks came in three responses:
\* a child, a child whose retrieval failed, and another child
C21_Witness ==
  \E i \in 1..Len(stack) :
    LET f == stack[i]
        blocks == childBlocks[f.pageId]
    IN /\ ListingDone(f)
       /\ Len(blocks) = 3
       /\ RetrievedFull(blocks[1]) /\ RetrievedFull(blocks[3])
       /\ blocks[2] \in Pages /\ pageKind[blocks[2]] # "full"
       /\ Len(f.children) = 2
       /\ f.listCalls = 3

(***************************************************************************)
(* C22. The visits a page starts for its children are, in order, the       *)
(* children its listing returned; each of them starts after the page's     *)
(* file was written and the child directory made; and when the visit of    *)
(* the next child starts, every visit that started since the visit of the  *)
(* child before it has made all its calls.  The calls in progress form one *)
(* chain: each was made by the one below it.                               *)
(***************************************************************************)
ChildCalls(p) ==
  {i \in 1..Len(calls) : calls[i].op = "exportPage" /\ calls[i].arg = p}

RECURSIVE ChildVisits(_, _)
ChildVisits(p, i) ==
  IF i > Len(calls) THEN <<>>
  ELSE (IF i \in ChildCalls(p) THEN <<calls[i].page>> ELSE <<>>)
       \o ChildVisits(p, i + 1)

\* the place of the call that started the visit of q
VisitStart(q) == CHOOSE i \in CallsOf("exportPage", q) :
                   \A j \in CallsOf("exportPage", q) : i <= j

StartedIn(i, j) ==
  {q \in Pages : CallsOf("exportPage", q) # {} /\ i <= VisitStart(q) /\ VisitStart(q) < j}

C22_DepthFirstInOrder ==
  /\ \A n \in 1..Len(stack) :
       stack[n].caller = IF n = 1 THEN 0 ELSE stack[n - 1].pageId
  /\ \A p \in Pages :
       /\ IsPrefix(ChildVisits(p, 1), SelectSeq(childBlocks[p], RetrievedFull))
       /\ \A i \in ChildCalls(p) :
            /\ \E w \in CallsOf("writeFile", p) : w < i
            /\ \E m \in CallsOf("mkdir", p) : m < i /\ calls[m].path = calls[i].path
            /\ calls[i].path \in fsDirs
            /\ \A j \in ChildCalls(p) :
                 i < j => \A q \in StartedIn(i, j) : \A b \in BodyCalls(q) : b < j

\* a run resolved in which the root visited two children, the first of them
\* with a child of its own that was written
C22_Witness ==
  /\ main.pc = "done"
  /\ rootPageId # NoRoot
  /\ Len(ChildVisits(rootPageId, 1)) = 2
  /\ LET c == ChildVisits(rootPageId, 1)[1]
     IN /\ c # rootPageId
        /\ CallsOf("writeFile", c) # {}
        /\ \E g \in Pages \ {rootPageId, c} :
             /\ ChildVisits(c, 1) = <<g>>
             /\ CallsOf("writeFile", g) # {}

(***************************************************************************)
(* C23. In every state of processImages, each place of the document where  *)
(* the text differs from the input is the occurrence of a match already    *)
(* processed whose own download succeeded: every other image occurrence    *)
(* and all text that is not an image stand as in the input.                *)
(***************************************************************************)
Rewritten(c) ==
  {n \in 1..Len(c.markdown) : c.processedMarkdown[n] # c.markdown[n]}

C23_OnlyOwnOccurrence ==
  img.pc \in {"loop", "returned"} =>
    LET c == img.c
    IN /\ Len(c.processedMarkdown) = Len(c.markdown)
       /\ \A n \in Rewritten(c) :
            \E k \in 1..(c.i - 1) :
              /\ c.matches[k] = n
              /\ Qualifies(MatchAt(c, k))
              /\ c.plan[k] = "ok"

(***************************************************************************)
(* C24. When a run in which nothing failed is over, every reference        *)
(* ./images/image-<n>.<ext> of a written document resolves, from the       *)
(* directory of the document, to a file that holds the download of the URL *)
(* the document had at that place.                                         *)
(***************************************************************************)
IsLocalReference(token) ==
  /\ token.kind = "img"
  /\ token.url.scheme = "rel"
  /\ token.url.host = <<".", "images">>

\* the file a reference of the document at path resolves to
ResolveReference(path, token) ==
  Append(PathJoin(Front(path), <<"images">>),
         token.url.name \o <<".", token.url.ext>>)

Documents == {path \in DOMAIN fsFiles : fsFiles[path].kind = "md"}

C24_OwnImage ==
  (main.pc = "done" /\ NumFailures = 0) =>
    \A path \in Documents :
      LET doc == fsFiles[path]
      IN \A n \in 1..Len(doc.md) :
           IsLocalReference(doc.md[n]) =>
             LET file == ResolveReference(path, doc.md[n])
             IN /\ file \in DOMAIN fsFiles
                /\ fsFiles[file] = [kind |-> "image", url |-> DocOf(doc.page)[n].url]

(***************************************************************************)
(* C25. Every file written and every directory made lies inside the        *)
(* output directory, and every visit a page starts for a child is given a  *)
(* directory strictly below the directory the page's own file is in,       *)
(* whatever the titles of the pages; this is stated for the workspaces     *)
(* that are forests of pages and the runs in which nothing fails.          *)
(***************************************************************************)
Inside(dir, path) == IsPrefix(dir, path)

StrictlyBelow(dir, path) == IsPrefix(dir, path) /\ Len(path) > Len(dir)

C25_InsideOutputDir ==
  (IsForest /\ NumFailures = 0) =>
    /\ \A path \in DOMAIN fsFiles : Inside(OutputDir, path)
    /\ \A dir \in fsDirs : Inside(OutputDir, dir)
    /\ \A i \in 1..Len(calls) :
         /\ calls[i].op \in {"mkdir", "writeFile"} => Inside(OutputDir, calls[i].path)
         /\ (calls[i].op = "exportPage" /\ calls[i].arg \in Pages) =>
              StrictlyBelow(calls[VisitStart(calls[i].arg)].path, calls[i].path)

====
